---- MODULE Spec2Model ----
(***************************************************************************)
(* A model of mcp_reddit/reddit_fetcher.py: the three tool entry points    *)
(* (fetch_reddit_post_from_url, fetch_reddit_hot_threads,                  *)
(* fetch_reddit_post_content), the post-id extraction from a URL and the   *)
(* recursive comment-tree formatter.                                       *)
(*                                                                         *)
(* A Python string is a sequence of tokens (TLA+ strings): characters for  *)
(* a URL, fragments for a formatted text.  "\n" is always a token of its   *)
(* own, so the lines of a text are the runs of tokens between "\n" tokens. *)
(***************************************************************************)
EXTENDS Integers, Sequences, FiniteSets, TLC

\* ------------------------------------------------------------------ bounds
\* Largest number of nodes of a comment tree given to the formatter.
MaxNodes == 4
\* The formatter is entered with depth 0 .. MaxDepth.
MaxDepth == 1
\* A URL given to the resolver is made of at most MaxPieces pieces.
MaxPieces == 4
\* The number of tool invocations that may be in progress together.
NumReq == 2
\* fetch_reddit_hot_threads is called with limit 1 .. MaxLimit.
MaxLimit == 2

\* ------------------------------------------------------- sequence helpers
\* The elements of a finite set of integers, ascending.
RECURSIVE Ascending(_)
Ascending(S) ==
    IF S = {} THEN <<>>
    ELSE LET m == CHOOSE x \in S : \A y \in S : x <= y
         IN <<m>> \o Ascending(S \ {m})

\* Python's  s * k  for a string s and an integer k.
RECURSIVE Repeat(_, _)
Repeat(s, k) == IF k <= 0 THEN <<>> ELSE s \o Repeat(s, k - 1)

\* --------------------------------------------------------------- formatter
\* Python's None, as the value of an optional string.
None == "None"

\* x or '[deleted]'
OrDeleted(x) == IF x = None \/ x = "" THEN "[deleted]" ELSE x

\* Two decimal digits, as strftime's %H, %M and %S print them.
Pad2(k) == IF k < 10 THEN "0" \o ToString(k) ELSE ToString(k)

\* datetime.fromtimestamp(timestamp).strftime("%Y-%m-%d %H:%M:%S UTC"), for a
\* timestamp of the first day of the epoch in a process whose zone is UTC.
format_date(timestamp) ==
    << "1970-01-01 ",
       Pad2(timestamp \div 3600), ":",
       Pad2((timestamp % 3600) \div 60), ":",
       Pad2(timestamp % 60),
       " UTC" >>

\* sorted(children, key=created_ut): ascending and stable (reverse omitted).
SortedAscending(children) ==
    LET Insert(s, x) ==
            LET p == Cardinality({i \in 1..Len(s) :
                        s[i].value.created_ut <= x.value.created_ut})
            IN SubSeq(s, 1, p) \o <<x>> \o SubSeq(s, p + 1, Len(s))
        F[k \in 0..Len(children)] ==
            IF k = 0 THEN <<>> ELSE Insert(F[k - 1], children[k])
    IN F[Len(children)]

\* sorted(children, key=created_ut)[::-1]: descending, equal keys reversed.
SortedThenReversed(children) ==
    LET Insert(s, x) ==
            LET p == Cardinality({i \in 1..Len(s) :
                        s[i].value.created_ut > x.value.created_ut})
            IN SubSeq(s, 1, p) \o <<x>> \o SubSeq(s, p + 1, Len(s))
        F[k \in 0..Len(children)] ==
            IF k = 0 THEN <<>> ELSE Insert(F[k - 1], children[k])
    IN F[Len(children)]

\* sorted(comment_node.children, key=created_ut, reverse=True): Python's sort
\* is stable and reverse=True keeps the input order of equal keys, so each
\* element goes after the elements whose key is greater or equal.
sorted_replies(children) ==
    LET Insert(s, x) ==
            LET p == Cardinality({i \in 1..Len(s) :
                        s[i].value.created_ut >= x.value.created_ut})
            IN SubSeq(s, 1, p) \o <<x>> \o SubSeq(s, p + 1, Len(s))
        F[k \in 0..Len(children)] ==
            IF k = 0 THEN <<>> ELSE Insert(F[k - 1], children[k])
    IN F[Len(children)]

\* The two lines every node starts with (the two  result +=  of the code).
HeaderAndBody(comment, depth) ==
    LET author_name == OrDeleted(comment.author_display_name)
        created_date == format_date(comment.created_ut)
        indent == Repeat(<<"    ">>, depth)
    IN indent \o created_date
         \o <<" [", author_name, "] Score: ", ToString(comment.score), "\n">>
         \o indent \o comment.body \o <<"\n">>

\* A formatter that prefixes every line of a child's block with "> ".
RECURSIVE QuoteEveryLine(_, _)
QuoteEveryLine(comment_node, depth) ==
    LET indent == Repeat(<<"    ">>, depth)
        sorted == sorted_replies(comment_node.children)
        Quote(block) ==
            LET G[k \in 0..Len(block)] ==
                    IF k = 0 THEN <<>>
                    ELSE IF k = 1 \/ block[k - 1] = "\n"
                         THEN G[k - 1] \o indent \o <<"> ", block[k]>>
                         ELSE G[k - 1] \o <<block[k]>>
            IN G[Len(block)]
        F[k \in 0..Len(sorted)] ==
            IF k = 0 THEN HeaderAndBody(comment_node.value, depth)
            ELSE F[k - 1] \o Quote(QuoteEveryLine(sorted[k], depth + 1))
    IN F[Len(sorted)]

\* A formatter that renders the first reply only.
RECURSIVE FirstReplyOnly(_, _)
FirstReplyOnly(comment_node, depth) ==
    LET indent == Repeat(<<"    ">>, depth)
        sorted == sorted_replies(comment_node.children)
    IN HeaderAndBody(comment_node.value, depth)
         \o (IF sorted = <<>> THEN <<>>
             ELSE indent \o <<"> ">> \o FirstReplyOnly(sorted[1], depth + 1))

\* A formatter that ends a node without replies with an empty quote line.
RECURSIVE TrailingQuote(_, _)
TrailingQuote(comment_node, depth) ==
    LET indent == Repeat(<<"    ">>, depth)
        sorted == sorted_replies(comment_node.children)
        F[k \in 0..Len(sorted)] ==
            IF k = 0 THEN HeaderAndBody(comment_node.value, depth)
            ELSE F[k - 1] \o indent \o <<"> ">>
                     \o TrailingQuote(sorted[k], depth + 1)
    IN IF sorted = <<>>
       THEN F[0] \o indent \o <<"> ", "\n">>
       ELSE F[Len(sorted)]

\* _format_comment_tree(comment_node, depth)
RECURSIVE format_comment_tree(_, _)
format_comment_tree(comment_node, depth) ==
    LET indent == Repeat(<<"    ">>, depth)
        sorted == sorted_replies(comment_node.children)
        F[k \in 0..Len(sorted)] ==
            IF k = 0 THEN HeaderAndBody(comment_node.value, depth)
            ELSE F[k - 1] \o indent \o <<"> ">>
                     \o format_comment_tree(sorted[k], depth + 1)
    IN F[Len(sorted)]

\* ----------------------------------------------------- comment-tree inputs
\* A comment record.  The score is the node's number, so that a header line
\* names its node; one node of a tree may carry a quirk.
Comment(i, ts, quirk) ==
    [ author_display_name |->
          IF quirk = "none_author" THEN None
          ELSE IF quirk = "empty_author" THEN "" ELSE "alice",
      created_ut |-> ts,
      score |-> i,
      body |-> IF quirk = "multiline" THEN <<"first", "\n", "second">>
               ELSE <<"text">> ]

Quirks == {"plain", "multiline", "none_author", "empty_author"}

\* The values of created_ut: seconds since the epoch.
Timestamps == {100, 200, 300}

\* The CommentTreeNode number i of the tree with n nodes in which node j > 1
\* replies to node par[j] < j; the replies of a node are in ascending order of
\* their numbers, and the last node carries the quirk.
RECURSIVE TreeNode(_, _, _, _, _)
TreeNode(i, n, par, ts, quirk) ==
    LET kids == Ascending({j \in 2..n : par[j] = i})
    IN [ value |-> Comment(i, ts[i], IF i = n THEN quirk ELSE "plain"),
         children |-> [k \in 1..Len(kids) |->
                          TreeNode(kids[k], n, par, ts, quirk)] ]

\* The parent links a tree of n nodes may have: a reply follows its parent.
ParentLinks(k) == {f \in [2..k -> 1..k] : \A j \in 2..k : f[j] < j}

\* ------------------------------------------------------------ URL resolver
\* The literal "/comments/" of the pattern, character by character.
CommentsLiteral == <<"/", "c", "o", "m", "m", "e", "n", "t", "s", "/">>

\* A group (.+) instead: everything up to the end of the string.
TakeRest(url, k) == IF k > Len(url) THEN <<>> ELSE SubSeq(url, k, Len(url))

\* The group ([^/]+) matched greedily from position k: the characters up to
\* the next "/" or the end of the string.
RECURSIVE TakeNonSlash(_, _)
TakeNonSlash(url, k) ==
    IF k > Len(url) \/ url[k] = "/" THEN <<>>
    ELSE <<url[k]>> \o TakeNonSlash(url, k + 1)

\* Whether the literal "/comments/" is at position p of url.
LiteralAt(url, p) ==
    /\ p + Len(CommentsLiteral) - 1 <= Len(url)
    /\ SubSeq(url, p, p + Len(CommentsLiteral) - 1) = CommentsLiteral

\* re.search(r"/comments/([^/]+)", url), tried at p, p + 1, ...: the leftmost
\* position where the whole pattern matches wins.
RECURSIVE SearchFrom(_, _)
SearchFrom(url, p) ==
    IF p > Len(url) THEN [found |-> FALSE, group1 |-> <<>>]
    ELSE IF LiteralAt(url, p)
              /\ TakeNonSlash(url, p + Len(CommentsLiteral)) # <<>>
         THEN [found |-> TRUE,
               group1 |-> TakeNonSlash(url, p + Len(CommentsLiteral))]
         ELSE SearchFrom(url, p + 1)

re_search(url) == SearchFrom(url, 1)

\* The URLs given to the resolver: up to MaxPieces pieces, one after another.
Pieces == { <<"/">>, CommentsLiteral, <<"c", "o", "m", "m", "e", "n", "t", "s">>,
            <<"a">>, <<"b">> }

RECURSIVE UrlsOf(_)
UrlsOf(k) ==
    IF k = 0 THEN {<<>>}
    ELSE UrlsOf(k - 1) \cup {u \o p : u \in UrlsOf(k - 1), p \in Pieces}

\* ------------------------------------------------------------ entry points
Req == 1..NumReq

\* The URLs, post ids and subreddits the tools are called with.
UrlArgs ==
    { <<"/", "r", "/", "x">> \o CommentsLiteral \o <<"a", "/", "t", "/">>,
      <<"/", "r", "/", "x">> \o CommentsLiteral \o <<"b">>,
      <<"/", "n", "o", "p", "e">> }
PostIdArgs == { <<"a">>, <<"b">> }
SubredditArgs == { "python" }

\* What the Reddit client answers: submissions, comment forests, failures.
TextSubmission ==
    [ cls |-> "TextPost", title |-> "Hello", score |-> 7,
      author_display_name |-> "alice", subreddit |-> "python",
      permalink |-> "/r/python/comments/a/hello/", comment_count |-> 3,
      body |-> <<"line", "\n", "more">>, gallery_link |-> "" ]
LinkSubmission ==
    [ cls |-> "LinkPost", title |-> "Look", score |-> 0,
      author_display_name |-> None, subreddit |-> "python",
      permalink |-> "/r/python/comments/b/look/", comment_count |-> 0,
      body |-> <<>>, gallery_link |-> "" ]

\* The submission the client has for a post id, and the k-th submission of
\* the hot listing.
SubmissionOf(id) == IF id = <<"a">> THEN TextSubmission ELSE LinkSubmission
HotPost(k) == IF k % 2 = 1 THEN TextSubmission ELSE LinkSubmission

Forests ==
    { <<>>,
      << TreeNode(1, 3, <<1, 1, 2>>, <<100, 200, 300>>, "plain"),
         TreeNode(1, 1, <<1>>, <<300>>, "none_author") >> }

Failures == {"timed out", "404 Not Found"}

\* _get_post_type(submission)
get_post_type(submission) ==
    IF submission.cls = "LinkPost" THEN "link"
    ELSE IF submission.cls = "TextPost" THEN "text"
    ELSE IF submission.cls = "GalleryPost" THEN "gallery"
    ELSE "unknown"

\* _get_content(submission), as an f-string prints it (None prints as None).
get_content(submission) ==
    IF submission.cls = "LinkPost" THEN <<submission.permalink>>
    ELSE IF submission.cls = "TextPost" THEN submission.body
    ELSE IF submission.cls = "GalleryPost" THEN <<submission.gallery_link>>
    ELSE <<"None">>

\* sep.join(strs)
RECURSIVE Join(_, _)
Join(sep, strs) ==
    IF strs = <<>> THEN <<>>
    ELSE IF Len(strs) = 1 THEN strs[1]
    ELSE strs[1] \o sep \o Join(sep, Tail(strs))

\* The value a tool returns: a string, or a list of strings.
Str(tokens) == [type |-> "str", value |-> tokens]
List(strs) == [type |-> "list", value |-> strs]
NoValue == [type |-> "none", value |-> <<>>]

\* f"An error occurred: {str(e)}"
ErrorString(e) == <<"An error occurred: ", e>>

\* The invalid URL reported by raising, so that the except clause words it.
InvalidUrlRaised == Str(ErrorString("Invalid Reddit post URL"))

\* return "Invalid Reddit post URL. Could not extract post ID."
InvalidUrlReturn == Str(<<"Invalid Reddit post URL. Could not extract post ID.">>)

\* main_content_parts of fetch_reddit_post_from_url
main_content_parts(submission) ==
    << <<"Title: ", submission.title>>,
       <<"Score: ", ToString(submission.score)>>,
       <<"Author: ", OrDeleted(submission.author_display_name)>>,
       <<"Subreddit: ", submission.subreddit>>,
       <<"Type: ", get_post_type(submission)>>,
       <<"Content: ">> \o get_content(submission),
       <<"Link: https://reddit.com", submission.permalink>>,
       <<"Number of Comments: ", ToString(submission.comment_count)>> >>

\* content of fetch_reddit_post_content, before the comments
content_head(submission) ==
    <<"Title: ", submission.title, "\n",
      "Score: ", ToString(submission.score), "\n",
      "Author: ", OrDeleted(submission.author_display_name), "\n",
      "Type: ", get_post_type(submission), "\n",
      "Content: ">> \o get_content(submission) \o <<"\n">>

\* post_info of fetch_reddit_hot_threads
post_info(submission) ==
    <<"Title: ", submission.title, "\n",
      "Score: ", ToString(submission.score), "\n",
      "Comments: ", ToString(submission.comment_count), "\n",
      "Author: ", OrDeleted(submission.author_display_name), "\n",
      "Type: ", get_post_type(submission), "\n",
      "Content: ">> \o get_content(submission)
      \o <<"\n", "Link: https://reddit.com", submission.permalink, "\n", "---">>

\* Every top-level comment formatted at depth 0.
FormattedForest(forest) ==
    [k \in 1..Len(forest) |-> format_comment_tree(forest[k], 0)]

\* What fetch_reddit_post_from_url returns once the comments are there.
from_url_result(parts, forest) ==
    IF forest # <<>>
    THEN List(Append(parts,
             <<"Comments:", "\n">> \o Join(<<"\n">>, FormattedForest(forest))))
    ELSE List(parts)

\* What fetch_reddit_post_content returns once the comments are there.
post_content_result(content, forest) ==
    LET F[k \in 0..Len(forest)] ==
            IF k = 0 THEN content \o <<"\n", "Comments:", "\n">>
            ELSE F[k - 1] \o <<"\n">> \o format_comment_tree(forest[k], 0)
    IN IF forest # <<>> THEN Str(F[Len(forest)])
       ELSE Str(content \o <<"\n", "No comments found.">>)

\* A call to the client, as the client sees it: pending until answered.
Call(api, id, args) ==
    [api |-> api, id |-> id, args |-> args,
     status |-> "pending", error |-> "", value |-> <<>>]

\* sort, limit and depth of the comment-tree fetch: all comments for
\* fetch_reddit_post_from_url, the defaults of fetch_reddit_post_content.
CommentTreeArgs(tool) ==
    IF tool = "post_from_url" THEN <<"top", "None", "None">>
    ELSE <<"top", "20", "3">>

Answered(call, value) == [call EXCEPT !.status = "ok", !.value = value]
Failed(call, e) == [call EXCEPT !.status = "error", !.error = e]

\* Both fetches issued at once (gathered) instead of one after the other.
IssueBothAtStart(id) ==
    << Call("submission.fetch", id, <<>>),
       Call("comment_tree.fetch", id, <<"top", "None", "None">>) >>

\* await client.p.submission.fetch(post_id): the one call a request starts with.
IssueAtStart(id) == << Call("submission.fetch", id, <<>>) >>

\* ---------------------------------------------------------------- the state
VARIABLES
    fmt_pc,   \* "call" before _format_comment_tree runs, "returned" after
    n,        \* the comment tree given to it: its number of nodes,
    par,      \*   the parent of every node but the root (node 1),
    ts,       \*   created_ut of every node,
    quirk,    \*   and the quirk of its last node
    depth,    \* the argument depth
    result,   \* the return value
    pc,        \* per request: "idle", the call it awaits, or "done"
    entry,     \* per request: the tool called
    arg,       \* per request: the tool's argument
    post_id,   \* per request: the local post_id
    acc,       \* per request: main_content_parts, posts or content so far
    ret,       \* per request: the value returned
    log,       \* per request: its calls to the client, in order
    failed_before   \* whether a request of this process has ended in a failure

fmt_vars == <<fmt_pc, n, par, ts, quirk, depth, result>>
req_vars == <<pc, entry, arg, post_id, acc, ret, log, failed_before>>
vars == <<fmt_vars, req_vars>>

\* The argument comment_node: the root of the tree the state holds.
comment_node == TreeNode(1, n, par, ts, quirk)

\* Nothing to format, no request in progress.
NoFormat ==
    /\ fmt_pc = "off" /\ n = 1 /\ par = <<1>> /\ ts = <<100>>
    /\ quirk = "plain" /\ depth = 0 /\ result = <<>>
NoRequest ==
    /\ pc = [r \in Req |-> "idle"]
    /\ entry = [r \in Req |-> "none"]
    /\ arg = [r \in Req |-> <<>>]
    /\ post_id = [r \in Req |-> <<>>]
    /\ acc = [r \in Req |-> <<>>]
    /\ ret = [r \in Req |-> NoValue]
    /\ log = [r \in Req |-> <<>>]
    /\ failed_before = FALSE

\* ------------------------------------------------ the formatter on its own
InitFmt ==
    /\ fmt_pc = "call"
    /\ n \in 1..MaxNodes
    /\ par \in ParentLinks(n)
    /\ ts \in [1..n -> Timestamps]
    /\ quirk \in Quirks
    /\ depth \in 0..MaxDepth
    /\ result = <<>>
    /\ NoRequest

Format ==
    /\ fmt_pc = "call"
    /\ result' = format_comment_tree(comment_node, depth)
    /\ fmt_pc' = "returned"
    /\ UNCHANGED <<n, par, ts, quirk, depth, req_vars>>

NextFmt == Format

SpecFmt == InitFmt /\ [][NextFmt]_vars

\* ------------------------------------------------------- the entry points
\* posts shared by the calls in progress (a list that outlives one call).
SharedPosts(r) ==
    LET others == Ascending({q \in Req \ {r} : entry[q] = "hot_threads"})
    IN Join(<<>>, [k \in 1..Len(others) |-> acc[others[k]]])

\* posts = []: the list of one call of fetch_reddit_hot_threads.
StartPosts(r) == <<>>

\* except Exception as e: return f"An error occurred: {str(e)}"
Except(e) == Str(ErrorString(e))

\* The posts collected so far returned in place of the error string.
PartialPosts(posts, e) == Str(Join(<<"\n", "\n">>, posts))

\* fetch_reddit_hot_threads fails while pulling: the except clause drops the
\* posts collected so far.
HotExcept(posts, e) == Except(e)

\* The request r ends: it holds the value v for its caller.
Done(r, v) ==
    /\ pc' = [pc EXCEPT ![r] = "done"]
    /\ ret' = [ret EXCEPT ![r] = v]

\* fetch_reddit_post_from_url(reddit_url), up to its first await or return.
FetchFromUrl(r, reddit_url) ==
    /\ pc[r] = "idle"
    /\ entry' = [entry EXCEPT ![r] = "post_from_url"]
    /\ arg' = [arg EXCEPT ![r] = reddit_url]
    /\ LET m == re_search(reddit_url)
       IN IF ~ m.found
          THEN /\ Done(r, InvalidUrlReturn)
               /\ UNCHANGED <<post_id, log>>
          ELSE /\ post_id' = [post_id EXCEPT ![r] = m.group1]
               /\ log' = [log EXCEPT ![r] = IssueAtStart(m.group1)]
               /\ pc' = [pc EXCEPT ![r] = "submission.fetch"]
               /\ UNCHANGED ret
    /\ UNCHANGED <<acc, failed_before, fmt_vars>>

\* fetch_reddit_post_content(post_id), up to its first await.
FetchPostContent(r, id) ==
    /\ pc[r] = "idle"
    /\ entry' = [entry EXCEPT ![r] = "post_content"]
    /\ arg' = [arg EXCEPT ![r] = id]
    /\ post_id' = [post_id EXCEPT ![r] = id]
    /\ log' = [log EXCEPT ![r] = IssueAtStart(id)]
    /\ pc' = [pc EXCEPT ![r] = "submission.fetch"]
    /\ UNCHANGED <<acc, ret, failed_before, fmt_vars>>

\* fetch_reddit_hot_threads(subreddit, limit), up to the first step of the pull.
FetchHotThreads(r, subreddit, limit) ==
    /\ pc[r] = "idle"
    /\ entry' = [entry EXCEPT ![r] = "hot_threads"]
    /\ arg' = [arg EXCEPT ![r] = <<subreddit, limit>>]
    /\ acc' = [acc EXCEPT ![r] = StartPosts(r)]
    /\ log' = [log EXCEPT ![r] = << Call("subreddit.pull.hot", subreddit, <<limit>>) >>]
    /\ pc' = [pc EXCEPT ![r] = "subreddit.pull.hot"]
    /\ UNCHANGED <<post_id, ret, failed_before, fmt_vars>>

\* The submission arrives: the tool builds its first part and awaits the
\* comment tree of the same post.
SubmissionFetched(r, submission) ==
    /\ pc[r] = "submission.fetch"
    /\ submission = SubmissionOf(post_id[r])
    /\ acc' = [acc EXCEPT ![r] =
                  IF entry[r] = "post_from_url" THEN main_content_parts(submission)
                  ELSE content_head(submission)]
    /\ log' = [log EXCEPT ![r] =
                  << Answered(log[r][1], <<submission>>) >> \o SubSeq(log[r], 2, Len(log[r]))
                    \o << Call("comment_tree.fetch", post_id[r],
                                CommentTreeArgs(entry[r])) >>]
    /\ pc' = [pc EXCEPT ![r] = "comment_tree.fetch"]
    /\ UNCHANGED <<entry, arg, post_id, ret, failed_before, fmt_vars>>

\* The submission fetch fails: the except clause returns the error string.
SubmissionFailed(r, e) ==
    /\ pc[r] = "submission.fetch"
    /\ log' = [log EXCEPT ![r] =
                  << Failed(log[r][1], e) >> \o SubSeq(log[r], 2, Len(log[r]))]
    /\ Done(r, Except(e))
    /\ UNCHANGED <<entry, arg, post_id, acc, failed_before, fmt_vars>>

\* The comment forest arrives: the tool formats it and returns.
CommentTreeFetched(r, forest) ==
    /\ pc[r] = "comment_tree.fetch"
    /\ log' = [log EXCEPT ![r][Len(log[r])] = Answered(@, forest)]
    /\ Done(r, IF entry[r] = "post_from_url" THEN from_url_result(acc[r], forest)
               ELSE post_content_result(acc[r], forest))
    /\ UNCHANGED <<entry, arg, post_id, acc, failed_before, fmt_vars>>

\* The comment-tree fetch fails: the except clause returns the error string.
CommentTreeFailed(r, e) ==
    /\ pc[r] = "comment_tree.fetch"
    /\ log' = [log EXCEPT ![r][Len(log[r])] = Failed(@, e)]
    /\ Done(r, Except(e))
    /\ UNCHANGED <<entry, arg, post_id, acc, failed_before, fmt_vars>>

\* The pull yields one more submission (the client yields at most limit).
HotYielded(r, submission) ==
    /\ pc[r] = "subreddit.pull.hot"
    /\ Len(log[r][1].value) < arg[r][2]
    /\ submission = HotPost(Len(log[r][1].value) + 1)
    /\ acc' = [acc EXCEPT ![r] = Append(@, post_info(submission))]
    /\ log' = [log EXCEPT ![r][1].value = Append(@, submission)]
    /\ UNCHANGED <<pc, entry, arg, post_id, ret, failed_before, fmt_vars>>

\* The pull ends: the posts are joined and returned.
HotExhausted(r) ==
    /\ pc[r] = "subreddit.pull.hot"
    /\ log' = [log EXCEPT ![r][1].status = "ok"]
    /\ Done(r, Str(Join(<<"\n", "\n">>, acc[r])))
    /\ UNCHANGED <<entry, arg, post_id, acc, failed_before, fmt_vars>>

\* The pull fails, at its first step or after some posts, while the client
\* still has to ask Reddit for more.
HotFailed(r, e) ==
    /\ pc[r] = "subreddit.pull.hot"
    /\ Len(log[r][1].value) < arg[r][2]
    /\ log' = [log EXCEPT ![r][1] = Failed(@, e)]
    /\ Done(r, HotExcept(acc[r], e))
    /\ UNCHANGED <<entry, arg, post_id, acc, failed_before, fmt_vars>>

\* The caller takes the value: the coroutine and its locals are gone.
Return(r) ==
    /\ pc[r] = "done"
    /\ pc' = [pc EXCEPT ![r] = "idle"]
    /\ entry' = [entry EXCEPT ![r] = "none"]
    /\ arg' = [arg EXCEPT ![r] = <<>>]
    /\ post_id' = [post_id EXCEPT ![r] = <<>>]
    /\ acc' = [acc EXCEPT ![r] = <<>>]
    /\ ret' = [ret EXCEPT ![r] = NoValue]
    /\ log' = [log EXCEPT ![r] = <<>>]
    /\ failed_before' = (failed_before \/ ret[r] = InvalidUrlReturn
                            \/ \E k \in 1..Len(log[r]) : log[r][k].status = "error")
    /\ UNCHANGED fmt_vars

Init == NoFormat /\ NoRequest

Next ==
    \E r \in Req :
        \/ \E reddit_url \in UrlArgs : FetchFromUrl(r, reddit_url)
        \/ \E id \in PostIdArgs : FetchPostContent(r, id)
        \/ \E subreddit \in SubredditArgs, limit \in 1..MaxLimit :
               FetchHotThreads(r, subreddit, limit)
        \/ SubmissionFetched(r, SubmissionOf(post_id[r]))
        \/ \E e \in Failures : SubmissionFailed(r, e)
        \/ \E forest \in Forests : CommentTreeFetched(r, forest)
        \/ \E e \in Failures : CommentTreeFailed(r, e)
        \/ HotYielded(r, HotPost(Len(log[r][1].value) + 1))
        \/ HotExhausted(r)
        \/ \E e \in Failures : HotFailed(r, e)
        \/ Return(r)

Spec == Init /\ [][Next]_vars

\* ----------------------------------- the URL search of the first entry point
\* fetch_reddit_post_from_url called once, with any URL made of the pieces.
NextUrl == \E reddit_url \in UrlsOf(MaxPieces) : FetchFromUrl(1, reddit_url)

SpecUrl == Init /\ [][NextUrl]_vars

\* --------------------------------------------- reading a formatted tree back
\* The lines of a text: the runs of tokens that end at each "\n".
RECURSIVE Lines(_)
Lines(s) ==
    IF s = <<>> THEN <<>>
    ELSE LET ends == {k \in 1..Len(s) : s[k] = "\n"}
         IN IF ends = {} THEN <<s>>
            ELSE LET e == CHOOSE k \in ends : \A m \in ends : k <= m
                 IN <<SubSeq(s, 1, e - 1)>> \o Lines(SubSeq(s, e + 1, Len(s)))

\* The positions in a text of the header of the node whose score is i.
HeaderPos(s, i) ==
    {k \in 1..(Len(s) - 1) : s[k] = "] Score: " /\ s[k + 1] = ToString(i)}

\* The position of node i's header in the result (0: it has none).
Pos(i) ==
    IF HeaderPos(result, i) = {} THEN 0 ELSE CHOOSE k \in HeaderPos(result, i) : TRUE

IsHeader(line) == \E k \in 1..Len(line) : line[k] = "] Score: "

\* The node a header line names.
NodeOfHeader(line) ==
    CHOOSE i \in 1..n : \E k \in 1..(Len(line) - 1) :
        line[k] = "] Score: " /\ line[k + 1] = ToString(i)

\* The node line l of ls belongs to: the one of the last header line up to l.
Owner(ls, l) ==
    LET hs == {m \in 1..l : IsHeader(ls[m])}
    IN NodeOfHeader(ls[CHOOSE m \in hs : \A m2 \in hs : m2 <= m])

Quotes(line) == Cardinality({k \in 1..Len(line) : line[k] = "> "})

\* The number of ancestors of node i.
RECURSIVE Level(_)
Level(i) == IF i = 1 THEN 0 ELSE 1 + Level(par[i])

\* The nodes of the subtree of node i.
RECURSIVE Subtree(_)
Subtree(i) == {i} \cup UNION {Subtree(j) : j \in {c \in 2..n : par[c] = i}}

Siblings(a, b) == a \in 2..n /\ b \in 2..n /\ a # b /\ par[a] = par[b]

StartsWith(s, p) == Len(s) >= Len(p) /\ SubSeq(s, 1, Len(p)) = p

\* ------------------------------------------- reading a URL and a call log
\* The positions p of url where a segment /comments/<id> starts: the literal,
\* then at least one character that is not "/".
SegmentStarts(url) ==
    {p \in 1..Len(url) :
        /\ LiteralAt(url, p)
        /\ p + Len(CommentsLiteral) <= Len(url)
        /\ url[p + Len(CommentsLiteral)] # "/"}

HasSegment(url) == SegmentStarts(url) # {}

\* The <id> of the first segment: it starts after the literal and ends at the
\* position e such that no "/" is in it and a "/" or the end of url follows.
FirstSegmentId(url) ==
    LET p == CHOOSE q \in SegmentStarts(url) : \A q2 \in SegmentStarts(url) : q <= q2
        b == p + Len(CommentsLiteral)
        e == CHOOSE k \in b..Len(url) :
                 /\ \A m \in b..k : url[m] # "/"
                 /\ (k = Len(url) \/ url[k + 1] = "/")
    IN SubSeq(url, b, e)

CallsOf(r, api) == {k \in 1..Len(log[r]) : log[r][k].api = api}
PendingOf(r) == {k \in 1..Len(log[r]) : log[r][k].status = "pending"}
FailedOf(r) == {k \in 1..Len(log[r]) : log[r][k].status = "error"}

\* -------------------------------------------------------------------- C1
\* C1: fetch_reddit_post_from_url passes to the submission fetch exactly the
\* <id> of the first segment /comments/<id> of its URL, and reports an invalid
\* URL when the URL has no such segment.
C1_PostIdIsFirstSegment ==
    \A r \in Req :
        entry[r] = "post_from_url" =>
            IF HasSegment(arg[r])
            THEN /\ log[r] # <<>>
                 /\ log[r][1].api = "submission.fetch"
                 /\ log[r][1].id = FirstSegmentId(arg[r])
                 /\ post_id[r] = FirstSegmentId(arg[r])
            ELSE /\ pc[r] = "done"
                 /\ ret[r].type = "str"
                 /\ ret[r].value = <<"Invalid Reddit post URL. Could not extract post ID.">>

\* A URL whose first /comments/ is followed by "/" and whose second one by an
\* id and a further path has been resolved to that id.
C1_Witness ==
    /\ entry[1] = "post_from_url"
    /\ arg[1] = CommentsLiteral \o CommentsLiteral \o <<"a">> \o <<"/">>
    /\ log[1] # <<>>
    /\ log[1][1].id = <<"a">>

\* -------------------------------------------------------------------- C2
\* C2: called with a URL without a /comments/<id> segment,
\* fetch_reddit_post_from_url returns the invalid-URL message, which is not
\* of the form "An error occurred: ...", and calls the client not at all.
C2_InvalidUrlNoClientCall ==
    \A r \in Req :
        (entry[r] = "post_from_url" /\ ~ HasSegment(arg[r])) =>
            /\ pc[r] = "done"
            /\ ret[r].type = "str"
            /\ ret[r].value = <<"Invalid Reddit post URL. Could not extract post ID.">>
            /\ ret[r].value[1] # "An error occurred: "
            /\ log[r] = <<>>

\* An invalid URL has been answered while another request awaits the client.
C2_Witness ==
    \E r, q \in Req :
        /\ entry[r] = "post_from_url" /\ ~ HasSegment(arg[r]) /\ pc[r] = "done"
        /\ log[r] = <<>>
        /\ PendingOf(q) # {}

\* -------------------------------------------------------------------- C3
\* C3: a request one of whose client calls failed (the submission fetch, the
\* comment-tree fetch, or the hot pull at any step) has returned exactly the
\* string "An error occurred: " followed by the failure's message: no partial
\* result, no exception.
C3_FailureGivesErrorString ==
    \A r \in Req :
        \A k \in FailedOf(r) :
            /\ pc[r] = "done"
            /\ ret[r].type = "str"
            /\ ret[r].value = <<"An error occurred: ", log[r][k].error>>

\* Each entry point has failed: the first at its comment-tree fetch, the
\* second after a post was collected, the third at its submission fetch.
C3_Witness ==
    \E r \in Req :
        /\ entry[r] = "hot_threads" /\ FailedOf(r) # {}
        /\ log[r][1].value # <<>> /\ acc[r] # <<>>
        /\ \E q \in Req :
              /\ entry[q] = "post_from_url" /\ FailedOf(q) = {2}
              /\ ret[q].value[2] # ret[r].value[2]

\* -------------------------------------------------------------------- C4
\* What a request returns in a process that serves nothing else, as a
\* function of its tool, its argument and the answers to its own calls.
FreshResult(tool, a, calls) ==
    IF tool = "hot_threads"
    THEN IF calls[1].status = "error" THEN Str(ErrorString(calls[1].error))
         ELSE Str(Join(<<"\n", "\n">>,
                  [k \in 1..Len(calls[1].value) |-> post_info(calls[1].value[k])]))
    ELSE IF calls = <<>>
    THEN Str(<<"Invalid Reddit post URL. Could not extract post ID.">>)
    ELSE IF calls[1].status = "error" THEN Str(ErrorString(calls[1].error))
    ELSE IF calls[2].status = "error" THEN Str(ErrorString(calls[2].error))
    ELSE IF tool = "post_from_url"
    THEN from_url_result(main_content_parts(calls[1].value[1]), calls[2].value)
    ELSE post_content_result(content_head(calls[1].value[1]), calls[2].value)

\* C4: whatever was served before and whatever else is in progress, an idle
\* slot can take any of the three requests, and a finished request has
\* returned what it would return in a fresh process: a function of its own
\* arguments and of the answers to its own client calls.
C4_ServesNextIndependently ==
    \A r \in Req :
        /\ pc[r] = "idle" =>
              /\ \A u \in UrlArgs : ENABLED FetchFromUrl(r, u)
              /\ \A id \in PostIdArgs : ENABLED FetchPostContent(r, id)
              /\ \A sr \in SubredditArgs, limit \in 1..MaxLimit :
                     ENABLED FetchHotThreads(r, sr, limit)
        /\ pc[r] = "done" => ret[r] = FreshResult(entry[r], arg[r], log[r])
        /\ \A q \in Req :
              (pc[r] = "done" /\ pc[q] = "done" /\ entry[r] = entry[q]
                  /\ arg[r] = arg[q] /\ log[r] = log[q]) => ret[r] = ret[q]

\* After a request of the process failed, a hot-thread request has returned
\* its posts while another hot-thread request is collecting its own.
C4_Witness ==
    /\ failed_before
    /\ \E r, q \in Req :
          /\ r # q
          /\ entry[r] = "hot_threads" /\ pc[r] = "done" /\ FailedOf(r) = {}
          /\ Len(log[r][1].value) = 2
          /\ entry[q] = "hot_threads" /\ pc[q] = "subreddit.pull.hot"
          /\ acc[q] # <<>>

\* -------------------------------------------------------------------- C5
\* C5: a request to fetch_reddit_post_from_url or fetch_reddit_post_content
\* makes at most two client calls, never two in flight together, and its
\* comment-tree fetch is issued only after its submission fetch for the same
\* post id was answered successfully.
C5_SubmissionThenCommentTree ==
    \A r \in Req :
        entry[r] \in {"post_from_url", "post_content"} =>
            /\ Len(log[r]) <= 2
            /\ Cardinality(PendingOf(r)) <= 1
            /\ \A k \in CallsOf(r, "comment_tree.fetch") :
                  /\ k = 2
                  /\ log[r][1].api = "submission.fetch"
                  /\ log[r][1].status = "ok"
                  /\ log[r][1].id = log[r][2].id

\* Both entry points have their comment-tree fetch in flight, each after its
\* submission fetch was answered.
C5_Witness ==
    \E r, q \in Req :
        /\ entry[r] = "post_from_url" /\ entry[q] = "post_content"
        /\ PendingOf(r) = {2} /\ PendingOf(q) = {2}
        /\ log[r][2].api = "comment_tree.fetch"
        /\ log[q][2].api = "comment_tree.fetch"
        /\ log[r][1].status = "ok" /\ log[q][1].status = "ok"

\* -------------------------------------------------------------------- C6
\* C6: at every node, of two replies to it with different created_ut the one
\* with the larger created_ut is rendered first.
C6_NewestFirst ==
    fmt_pc = "returned" =>
        \A a, b \in 2..n :
            (Siblings(a, b) /\ ts[a] > ts[b]) =>
                (Pos(a) > 0 /\ Pos(a) < Pos(b))

\* The spec's example: replies created at 100, 300, 200 come out 300, 200, 100.
C6_Witness ==
    /\ fmt_pc = "returned"
    /\ n = 4 /\ par[2] = 1 /\ par[3] = 1 /\ par[4] = 1
    /\ ts[2] = 100 /\ ts[3] = 300 /\ ts[4] = 200
    /\ Pos(3) < Pos(4) /\ Pos(4) < Pos(2)

\* -------------------------------------------------------------------- C7
\* C7 as stated: every line of a node at level d below the root (its header
\* line and its body lines) carries one "> " per ancestor level, d in all.
C7_QuotePerAncestor ==
    fmt_pc = "returned" =>
        LET ls == Lines(result)
        IN \A l \in 1..Len(ls) : Quotes(ls[l]) = Level(Owner(ls, l))

\* C7, amended: a recursion level puts one "> " in front of the first line of
\* the reply's block only.  The header line of a node at level d >= 1 is its
\* parent's indent, one "> ", its own indent, then the header text: one "> "
\* whatever d is; the root's header line and every body line get none.
C7_QuoteOncePerBlock ==
    fmt_pc = "returned" =>
        LET ls == Lines(result)
        IN \A l \in 1..Len(ls) :
            LET i == Owner(ls, l)
                d == depth + Level(i)
            IN IF IsHeader(ls[l]) /\ i # 1
               THEN /\ Quotes(ls[l]) = 1
                    /\ StartsWith(ls[l],
                           Repeat(<<"    ">>, d - 1) \o <<"> ">>
                             \o Repeat(<<"    ">>, d) \o <<"1970-01-01 ">>)
               ELSE Quotes(ls[l]) = 0

\* A reply to a reply has been rendered: its header line carries one "> ",
\* its body line none.
C7_Witness ==
    /\ fmt_pc = "returned"
    /\ \E i \in 3..n : par[i] # 1 /\ Pos(i) > 0
    /\ \E l \in 1..Len(Lines(result)) :
          /\ IsHeader(Lines(result)[l])
          /\ Level(Owner(Lines(result), l)) = 2
          /\ Quotes(Lines(result)[l]) = 1

\* -------------------------------------------------------------------- C8
\* C8 as stated: a node without replies renders as exactly two lines, each
\* starting with the indent, with no "> ", whatever its body.
C8_ExactlyTwoLines ==
    (fmt_pc = "returned" /\ n = 1) =>
        LET ls == Lines(result)
            indent == Repeat(<<"    ">>, depth)
        IN /\ Len(ls) = 2
           /\ \A l \in 1..Len(ls) : StartsWith(ls[l], indent) /\ Quotes(ls[l]) = 0

\* C8, amended: a node without replies renders as its header line followed by
\* its body verbatim and a newline: two lines when the body has no newline,
\* one more per newline of the body; the header line and the first body line
\* start with the indent, the body's further lines are as they are in the
\* body, and the formatter adds no "> ".
C8_HeaderThenBodyVerbatim ==
    (fmt_pc = "returned" /\ n = 1) =>
        LET ls == Lines(result)
            indent == Repeat(<<"    ">>, depth)
            comment == comment_node.value
            body == Lines(comment.body)
        IN /\ Len(ls) = 1 + Len(body)
           /\ ls[1] = indent \o format_date(comment.created_ut)
                        \o <<" [", OrDeleted(comment.author_display_name),
                             "] Score: ", ToString(comment.score)>>
           /\ ls[2] = indent \o body[1]
           /\ \A l \in 2..Len(body) : ls[l + 1] = body[l]
           /\ result[Len(result)] = "\n"
           /\ \A l \in 1..Len(ls) : Quotes(ls[l]) = 0

\* A node without replies whose body has two lines has been rendered at a
\* depth above 0.
C8_Witness ==
    /\ fmt_pc = "returned" /\ n = 1 /\ depth > 0
    /\ quirk = "multiline"
    /\ Len(Lines(result)) = 3

\* -------------------------------------------------------------------- C9
\* C9: replies to one node with equal created_ut are rendered in the order
\* they have among the node's children.
C9_TiesKeepInputOrder ==
    fmt_pc = "returned" =>
        \A a, b \in 2..n :
            (Siblings(a, b) /\ ts[a] = ts[b] /\ a < b) =>
                (Pos(a) > 0 /\ Pos(a) < Pos(b))

\* Two replies to one node with equal created_ut have been rendered, below a
\* newer reply that comes after them among the children.
C9_Witness ==
    /\ fmt_pc = "returned"
    /\ \E a, b, c \in 2..n :
          /\ Siblings(a, b) /\ Siblings(b, c) /\ a < b /\ b < c
          /\ ts[a] = ts[b] /\ ts[c] > ts[a]
          /\ Pos(c) < Pos(a) /\ Pos(a) < Pos(b)

\* ------------------------------------------------------------------- C10
\* C10: the output has exactly one header line per node of the tree, a node's
\* header comes after its parent's and before those of its descendants, and
\* the headers of a subtree are contiguous: no header of a node outside the
\* subtree lies between two headers of the subtree.
C10_OneHeaderPerNodePreorder ==
    fmt_pc = "returned" =>
        LET marks == {k \in 1..Len(result) : result[k] = "] Score: "}
            P == [i \in 1..n |-> {k \in marks : result[k + 1] = ToString(i)}]
            At(i) == CHOOSE k \in P[i] : TRUE
        IN /\ Cardinality(marks) = n
           /\ \A i \in 1..n : Cardinality(P[i]) = 1
           /\ \A k1, k2 \in marks :
                  k1 < k2 => \E m \in k1..k2 : result[m] = "\n"
           /\ \A i \in 2..n : At(par[i]) < At(i)
           /\ \A i \in 1..n :
                  LET sub == Subtree(i)
                  IN \A y \in sub : \A z \in (1..n) \ sub :
                         ~ (At(i) < At(z) /\ At(z) < At(y))

\* A tree with a reply to a reply and a second reply to the root has been
\* rendered.
C10_Witness ==
    /\ fmt_pc = "returned"
    /\ n = 4
    /\ \E i, j \in 2..n : i # j /\ par[i] = 1 /\ par[j] = 1
    /\ \E i \in 3..n : par[i] # 1
    /\ \A i \in 1..n : Pos(i) > 0

====
